---- MODULE Spec2Model ----
(***************************************************************************)
(* Model of server.py, the gesture model inference server: the loader      *)
(* load_model with its module globals, the startup hook, and the three     *)
(* routes /health, /model_info and /predict.                               *)
(*                                                                         *)
(* Representation.  A Python str is the sequence of the parts it is        *)
(* formatted from, so an f-string keeps the order of its arguments; an     *)
(* optional str is the empty sequence when it is None.  Paths and model    *)
(* objects are strings, with None for Python's None.  Probabilities are    *)
(* integers in percent.                                                    *)
(***************************************************************************)
EXTENDS Integers, Sequences, FiniteSets, TLC

VARIABLES MODEL, LAST_LOAD_ERROR, MODEL_PATH_TRIED, fs, started, loaded, resp, calls, req

globals == <<MODEL, LAST_LOAD_ERROR, MODEL_PATH_TRIED>>
vars == <<MODEL, LAST_LOAD_ERROR, MODEL_PATH_TRIED, fs, started, loaded, resp, calls, req>>

(* ------------------------------ bounds --------------------------------- *)

\* Largest number of elements in a request body.
MaxRows == 2

\* Largest length of a sequence (labels, probability rows) a model returns,
\* independent of the number of rows it was given.
MaxPreds == 2

(* --------------------------- the file system --------------------------- *)

None == "None"
NoStr == <<>>

MODEL_PATH == "gesture_detection.pkl"

\* The files that may lie in the server's directory; server.py is always there.
DirFiles == {"gesture_detection.pkl", "backup.joblib", "server.py"}

\* Model objects a file can deserialize to.
Models == {"clf_plain", "clf_proba"}

\* hasattr(MODEL, 'predict_proba')
HasPredictProba(m) == m = "clf_proba"

FileContents == {"absent", "truncated"} \cup Models

FileSystems == {f \in [DirFiles -> FileContents \cup {"text"}] :
                  /\ f["server.py"] = "text"
                  /\ \A n \in DirFiles \ {"server.py"} : f[n] # "text"}

\* Paths a caller may hand to load_model; None selects MODEL_PATH.
Paths == DirFiles \cup {"missing.sav", None}

Exists(path) == path \in DirFiles /\ fs[path] # "absent"

Suffix(f) ==
  CASE f = "gesture_detection.pkl" -> ".pkl"
    [] f = "backup.joblib" -> ".joblib"
    [] f = "missing.sav" -> ".sav"
    [] OTHER -> ".py"

HasModelSuffix(f) == Suffix(f) \in {".pkl", ".joblib", ".sav"}

\* os.listdir returns the entries in arbitrary order, so the first match of
\* the scan is any matching entry; without a match the path is kept.
ScanResults(path) ==
  LET found == {f \in DirFiles : fs[f] # "absent" /\ HasModelSuffix(f)}
  IN  IF found = {} THEN {path} ELSE found

ResolvedPaths(path) ==
  LET p == IF path = None THEN MODEL_PATH ELSE path
  IN  IF Exists(p) THEN {p} ELSE ScanResults(p)

\* joblib.load / pickle.load on the file's content: the object, or the error.
Deserialize(content) ==
  IF content \in Models
  THEN [ok |-> TRUE, obj |-> content, err |-> NoStr]
  ELSE [ok |-> FALSE, obj |-> None,
        err |-> IF content = "truncated" THEN <<"Ran out of input">>
                ELSE <<"invalid load key, 'f'.">>]

NotFoundError(path) == <<"Model file not found: ", path>>

\* The state before any request or load.
NoResp == [endpoint |-> "none", status |-> 0, detail |-> NoStr, out |-> <<>>,
           info |-> [model_loaded |-> FALSE]]

\* What the last call of load_model did: the path it resolved, whether the
\* file existed and deserialized, the handle before the call and the value
\* returned.
NoLoad == [called |-> FALSE, path |-> None, found |-> FALSE, ok |-> FALSE,
           before |-> None, ret |-> None]

Loaded(p, found, ok, ret) ==
  [called |-> TRUE, path |-> p, found |-> found, ok |-> ok, before |-> MODEL, ret |-> ret]

\* Faulty variant of load_model_at: the except branch records the error but
\* does not reset the handle, so a model loaded earlier survives.
load_model_at_keepsHandle(p) ==
  /\ MODEL_PATH_TRIED' = p
  /\ IF ~Exists(p)
     THEN /\ MODEL' = None
          /\ LAST_LOAD_ERROR' = NotFoundError(p)
          /\ loaded' = Loaded(p, FALSE, FALSE, None)
     ELSE LET d == Deserialize(fs[p])
          IN  IF d.ok
              THEN /\ MODEL' = d.obj
                   /\ UNCHANGED LAST_LOAD_ERROR
                   /\ loaded' = Loaded(p, TRUE, TRUE, d.obj)
              ELSE /\ UNCHANGED MODEL
                   /\ LAST_LOAD_ERROR' = d.err
                   /\ loaded' = Loaded(p, TRUE, FALSE, MODEL)

\* load_model(path), resolving to the file p.
load_model_at(p) ==
  /\ MODEL_PATH_TRIED' = p
  /\ IF ~Exists(p)
     THEN /\ MODEL' = None
          /\ LAST_LOAD_ERROR' = NotFoundError(p)
          /\ loaded' = Loaded(p, FALSE, FALSE, None)
     ELSE LET d == Deserialize(fs[p])
          IN  IF d.ok
              THEN /\ MODEL' = d.obj
                   /\ UNCHANGED LAST_LOAD_ERROR
                   /\ loaded' = Loaded(p, TRUE, TRUE, d.obj)
              ELSE /\ MODEL' = None
                   /\ LAST_LOAD_ERROR' = d.err
                   /\ loaded' = Loaded(p, TRUE, FALSE, None)

load_model(path) == \E p \in ResolvedPaths(path) : load_model_at(p)

Init ==
  /\ MODEL = None
  /\ LAST_LOAD_ERROR = NoStr
  /\ MODEL_PATH_TRIED = None
  /\ fs \in FileSystems
  /\ started = FALSE
  /\ loaded = NoLoad
  /\ resp = NoResp
  /\ calls = <<>>
  /\ req = [array |-> TRUE, elems |-> <<>>]

startup_event ==
  /\ ~started
  /\ load_model(None)
  /\ started' = TRUE
  /\ UNCHANGED <<fs, resp, calls, req>>

(* ------------------------- diagnostic endpoints ------------------------ *)

\* A handler's response; the handlers assign none of the module globals.
Respond(r, c, b) ==
  /\ resp' = r
  /\ calls' = c
  /\ req' = b
  /\ UNCHANGED <<MODEL, LAST_LOAD_ERROR, MODEL_PATH_TRIED, fs, started, loaded>>

HealthBody == [status |-> "ok", model_loaded |-> MODEL # None]

health ==
  /\ started
  /\ Respond([endpoint |-> "health", status |-> 200, detail |-> NoStr, out |-> <<>>,
              info |-> HealthBody], <<>>, req)

ModelInfoBody ==
  [model_loaded |-> MODEL # None,
   model_path_tried |-> MODEL_PATH_TRIED,
   last_load_error |-> LAST_LOAD_ERROR]

\* Faulty variant of model_info: it reports the error and then clears it.
model_info_clearsError ==
  /\ started
  /\ resp' = [endpoint |-> "model_info", status |-> 200, detail |-> NoStr, out |-> <<>>,
              info |-> ModelInfoBody]
  /\ calls' = <<>>
  /\ LAST_LOAD_ERROR' = NoStr
  /\ UNCHANGED <<MODEL, MODEL_PATH_TRIED, fs, started, loaded, req>>

model_info ==
  /\ started
  /\ Respond([endpoint |-> "model_info", status |-> 200, detail |-> NoStr, out |-> <<>>,
              info |-> ModelInfoBody], <<>>, req)

(* ------------------------------ /predict ------------------------------- *)

SeqsUpTo(S, n) == UNION {[1..k -> S] : k \in 0..n}

\* A JSON body: an array of objects and other values, or not an array.
Bodies ==
  {[array |-> TRUE, elems |-> e] : e \in SeqsUpTo({"object", "scalar"}, MaxRows)}
    \cup {[array |-> FALSE, elems |-> <<>>]}

\* The declared parameter type List[Dict[str, Any]]: the framework parses the
\* body against it before it calls the handler.
MatchesRowsType(body) ==
  body.array /\ \A i \in 1..Len(body.elems) : body.elems[i] = "object"

\* Labels a model returns: numpy scalars and native values.
Labels == {[kind |-> "np.int64", v |-> 1], [kind |-> "str", v |-> 2]}

ErrMsgs == {"feature names mismatch", "could not convert string to float"}

\* What a call of MODEL.predict does: it returns labels or raises.
PredictOutcomes ==
  {[ok |-> TRUE, preds |-> s, err |-> NoStr] : s \in SeqsUpTo(Labels, MaxPreds)}
    \cup {[ok |-> FALSE, preds |-> <<>>, err |-> <<e>>] : e \in ErrMsgs}

\* What pd.DataFrame(rows) does.
DataFrameOutcomes ==
  {[ok |-> TRUE, err |-> NoStr], [ok |-> FALSE, err |-> <<"Mixing dicts with non-Series">>]}

\* What MODEL.predict_proba does: it raises, or returns an array (a list is
\* converted to one) of ndim dimensions whose first has len entries.
ProbaOutcomes ==
  {[raises |-> TRUE, ndim |-> 0, len |-> 0]}
    \cup {[raises |-> FALSE, ndim |-> 1, len |-> 0]}
    \cup {[raises |-> FALSE, ndim |-> d, len |-> k] : d \in {2, 3}, k \in 0..MaxPreds}

\* Row i of a two-dimensional probability matrix.
ProbRow(i) == IF i % 2 = 1 THEN <<30, 70>> ELSE <<50, 50>>

Max2(a, b) == IF a >= b THEN a ELSE b

RECURSIVE RowMax(_)
RowMax(row) == IF Len(row) = 1 THEN row[1] ELSE Max2(row[1], RowMax(Tail(row)))

\* probs.max(axis=1).tolist(): raises on a one-dimensional array, gives the
\* row maxima of a matrix, and lists of maxima for a three-dimensional array.
Confidences(proba) ==
  IF proba.raises \/ proba.ndim = 1
  THEN [ok |-> FALSE, vals |-> <<>>]
  ELSE [ok |-> TRUE,
        vals |-> [i \in 1..proba.len |->
                    [scalar |-> proba.ndim = 2, v |-> RowMax(ProbRow(i))]]]

NoConfidences == [ok |-> FALSE, vals |-> <<>>]

\* p.item() for numpy integers and floats.
Native(p) ==
  IF p.kind \in {"np.int64", "np.float64"}
  THEN [kind |-> IF p.kind = "np.int64" THEN "int" ELSE "float", v |-> p.v]
  ELSE p

\* JSON null for a confidence.
Null == -1

\* float(confidences[i]), None when the index or the conversion raises.
ConfidenceAt(vals, i) ==
  IF i > Len(vals) THEN Null
  ELSE IF ~vals[i].scalar THEN Null
  ELSE vals[i].v

\* Faulty variant of Entry: a confidence that cannot be converted is left out
\* of the entry instead of being set to None.
Entry_dropsNull(p, conf, i) ==
  IF conf.ok /\ ConfidenceAt(conf.vals, i) # Null
  THEN [prediction |-> Native(p), confidence |-> ConfidenceAt(conf.vals, i)]
  ELSE [prediction |-> Native(p)]

Entry(p, conf, i) ==
  IF conf.ok
  THEN [prediction |-> Native(p), confidence |-> ConfidenceAt(conf.vals, i)]
  ELSE [prediction |-> Native(p)]

BuildOut(preds, conf) == [i \in 1..Len(preds) |-> Entry(preds[i], conf, i)]

HttpError(code, msg) ==
  [endpoint |-> "predict", status |-> code, detail |-> msg, out |-> <<>>,
   info |-> [model_loaded |-> MODEL # None]]

Ok(out) ==
  [endpoint |-> "predict", status |-> 200, detail |-> NoStr, out |-> out,
   info |-> [model_loaded |-> MODEL # None]]

Call(op, arg, outcome) ==
  [op |-> op, arg |-> arg, ok |-> outcome.ok, preds |-> outcome.preds, err |-> outcome.err,
   ndim |-> 0]

ProbaCall(arg, proba) ==
  [op |-> "predict_proba", arg |-> arg, ok |-> ~proba.raises, preds |-> <<>>, err |-> NoStr,
   ndim |-> proba.ndim]

\* Faulty variant of PredictionFailedDetail: the two messages are swapped.
PredictionFailedDetail_swapped(e1, e2) == <<"Model prediction failed: ">> \o e2 \o <<"; ">> \o e1

PredictionFailedDetail(e1, e2) == <<"Model prediction failed: ">> \o e1 \o <<"; ">> \o e2

\* The confidence block and the output loop, after predictions preds.
Score(body, preds, c) ==
  IF HasPredictProba(MODEL)
  THEN \E proba \in ProbaOutcomes :
         Respond(Ok(BuildOut(preds, Confidences(proba))),
                 Append(c, ProbaCall("df", proba)), body)
  ELSE Respond(Ok(BuildOut(preds, NoConfidences)), c, body)

\* Faulty variant of Infer: the retry's result is not assigned, the response
\* is built from what the failed direct call left behind.
Infer_retryDiscarded(body) ==
  \E direct \in PredictOutcomes :
    IF direct.ok
    THEN Score(body, direct.preds, <<Call("predict", "df", direct)>>)
    ELSE \E retry \in PredictOutcomes :
           LET c == <<Call("predict", "df", direct), Call("predict", "df.values", retry)>>
           IN  IF retry.ok
               THEN Score(body, direct.preds, c)
               ELSE Respond(HttpError(500, PredictionFailedDetail(direct.err, retry.err)),
                            c, body)

\* The direct call on the table and the retry on its values.
Infer(body) ==
  \E direct \in PredictOutcomes :
    IF direct.ok
    THEN Score(body, direct.preds, <<Call("predict", "df", direct)>>)
    ELSE \E retry \in PredictOutcomes :
           LET c == <<Call("predict", "df", direct), Call("predict", "df.values", retry)>>
           IN  IF retry.ok
               THEN Score(body, retry.preds, c)
               ELSE Respond(HttpError(500, PredictionFailedDetail(direct.err, retry.err)),
                            c, body)

Handle(body) ==
  IF MODEL = None
  THEN Respond(HttpError(503, <<"Model not loaded">>), <<>>, body)
  ELSE IF ~body.array \/ Len(body.elems) = 0
  THEN Respond(HttpError(400, <<"Request body must be a non-empty JSON array of objects">>),
               <<>>, body)
  ELSE \E df \in DataFrameOutcomes :
         IF ~df.ok
         THEN Respond(HttpError(400, <<"Failed to parse input rows into DataFrame: ">> \o df.err),
                      <<>>, body)
         ELSE Infer(body)

predict ==
  /\ started
  /\ \E body \in Bodies :
       IF MatchesRowsType(body)
       THEN Handle(body)
       ELSE Respond(HttpError(422, <<"Input should be a valid list of dictionaries">>),
                    <<>>, body)

Next == startup_event \/ health \/ model_info \/ predict

Spec == Init /\ [][Next]_vars

(* ---------------- the loader called again, with any path ---------------- *)

reload ==
  /\ \E path \in Paths : load_model(path)
  /\ UNCHANGED <<fs, started, resp, calls, req>>

NextLoader == startup_event \/ reload \/ health \/ model_info

LoaderSpec == Init /\ [][NextLoader]_vars

(* ------------------------------ properties ----------------------------- *)

IsPredict == resp.endpoint = "predict"

Predictions == [i \in 1..Len(resp.out) |-> resp.out[i].prediction]

NativeAll(preds) == [i \in 1..Len(preds) |-> Native(preds[i])]

PredictCalls == {i \in 1..Len(calls) : calls[i].op = "predict"}

ProbaCalls == {i \in 1..Len(calls) : calls[i].op = "predict_proba"}

\* The prediction step of the last /predict request succeeded.
PredictionSucceeded ==
  IsPredict /\ \E i \in PredictCalls : calls[i].ok

RowsOnly(b) == b.array /\ \A i \in 1..Len(b.elems) : b.elems[i] = "object"

\* C1: a valid row sequence of length n against a loaded model is answered
\* by exactly n entries, whatever sequence the model's predict returns.
C1_OutputLengthEqualsRows ==
  (IsPredict /\ resp.status = 200) => Len(resp.out) = Len(req.elems)

\* C2: after a load that found no artifact, /model_info reports
\* model_loaded false with a non-null last_load_error, and every /predict
\* request, whatever its body, is answered 503.
C2_NoArtifactMeans503 ==
  (loaded.called /\ ~loaded.found) =>
    /\ ModelInfoBody.model_loaded = FALSE
    /\ ModelInfoBody.last_load_error # NoStr
    /\ (IsPredict => resp.status = 503)

\* C3: with a model loaded, a /predict body that is an empty array, not an
\* array, or an array with a non-object element is answered 400 and the
\* model is not called.
C3_MalformedBodyIs400 ==
  (IsPredict /\ MODEL # None /\ (~RowsOnly(req) \/ Len(req.elems) = 0)) =>
    (resp.status = 400 /\ calls = <<>>)

\* C4: when the direct predict call raises, the values of the table are
\* tried once, as the second call and only then; when that retry returns,
\* the response is 200 and carries exactly the retry's predictions.
C4_RetryOnValues ==
  IsPredict =>
    /\ \A i \in PredictCalls :
         \/ i = 1 /\ calls[i].arg = "df"
         \/ i = 2 /\ calls[i].arg = "df.values" /\ ~calls[1].ok
    /\ ((1 \in PredictCalls /\ ~calls[1].ok) => 2 \in PredictCalls)
    /\ ((2 \in PredictCalls /\ calls[2].ok) =>
         (resp.status = 200 /\ Predictions = NativeAll(calls[2].preds)))

C4_Witness ==
  /\ IsPredict /\ resp.status = 200
  /\ Len(calls) >= 2 /\ ~calls[1].ok /\ calls[2].arg = "df.values" /\ calls[2].ok
  /\ Len(resp.out) = 2 /\ resp.out[1].prediction # resp.out[2].prediction

\* C5: a step in which both predict calls raise ends in status 500 whose
\* message has the first attempt's error before the retry's, leaves the
\* handle and the load diagnostics as they were, and the model stays loaded:
\* the request after it is not answered 503.
C5_BothAttemptsFail ==
  [][/\ (IsPredict' /\ Len(calls') = 2 /\ ~calls'[1].ok /\ ~calls'[2].ok) =>
          (/\ resp'.status = 500
           /\ \E i, j \in 1..Len(resp'.detail) :
                /\ i < j
                /\ <<resp'.detail[i]>> = calls'[1].err
                /\ <<resp'.detail[j]>> = calls'[2].err
           /\ UNCHANGED globals
           /\ MODEL' # None)
     /\ (IsPredict /\ resp.status = 500) =>
          (/\ resp'.status # 503
           /\ (resp'.endpoint = "health" => resp'.info.model_loaded))]_vars

C5_Witness ==
  /\ IsPredict /\ resp.status = 500
  /\ Len(calls) = 2 /\ calls[1].err # calls[2].err

\* C6: when the prediction step succeeded the response is 200, and the
\* confidence key is in every entry if the model has predict_proba and
\* neither that call nor the row maximum raised, and in no entry otherwise.
C6_ConfidenceAllOrNothing ==
  PredictionSucceeded =>
    /\ resp.status = 200
    /\ LET computed ==
             /\ HasPredictProba(MODEL)
             /\ \E i \in ProbaCalls : calls[i].ok /\ calls[i].ndim >= 2
       IN  \A k \in 1..Len(resp.out) :
             ("confidence" \in DOMAIN resp.out[k]) <=> computed

C6_Witness ==
  /\ PredictionSucceeded
  /\ Len(resp.out) >= 2
  /\ \A k \in 1..Len(resp.out) : "confidence" \in DOMAIN resp.out[k]
  /\ resp.out[1].confidence # Null
  /\ resp.out[2].confidence = Null

\* C7: predict_proba is called on the representation of the table that the
\* successful predict call was given.
C7_ProbaOnSameTable ==
  IsPredict =>
    \A i \in ProbaCalls : \A j \in PredictCalls : (calls[j].ok => calls[i].arg = calls[j].arg)

\* C8: after a call of the loader that deserialized a model, the handle is
\* that object and /model_info reports model_loaded true and
\* last_load_error null.
C8_SuccessClearsDiagnostics ==
  (loaded.called /\ loaded.ok) =>
    /\ MODEL = Deserialize(fs[loaded.path]).obj
    /\ ModelInfoBody.model_loaded
    /\ ModelInfoBody.last_load_error = NoStr

\* C9: the handle and its diagnostics change only in the startup step; once
\* the server has started every request leaves them unchanged, so /health
\* and /model_info keep returning the same values.
C9_WrittenOnceAtStartup ==
  [][/\ (globals' # globals) => (~started /\ started')
     /\ (started =>
          /\ UNCHANGED globals
          /\ HealthBody' = HealthBody
          /\ ModelInfoBody' = ModelInfoBody)]_vars

C9_Witness ==
  /\ started /\ MODEL # None /\ LAST_LOAD_ERROR = NoStr
  /\ IsPredict /\ resp.status = 500

\* C10: after a call of the loader whose file exists but does not
\* deserialize, the handle is absent whatever it was before, last_load_error
\* is the exception's message, model_path_tried is the path attempted, and
\* the call returned None.
C10_DeserializationFailure ==
  (loaded.called /\ loaded.found /\ ~loaded.ok) =>
    /\ MODEL = None
    /\ LAST_LOAD_ERROR = Deserialize(fs[loaded.path]).err
    /\ LAST_LOAD_ERROR # NoStr
    /\ MODEL_PATH_TRIED = loaded.path
    /\ loaded.ret = None

C10_Witness ==
  /\ loaded.called /\ loaded.found /\ ~loaded.ok
  /\ loaded.before # None
  /\ started
  /\ resp.endpoint = "model_info"
  /\ resp.info.model_loaded = FALSE
  /\ resp.info.last_load_error = Deserialize(fs[loaded.path]).err
====
